---- MODULE Spec2Model ----
(***************************************************************************)
(* Model of the Piper TTS capability service (src/src/app.py):             *)
(*   - the default-voice acquirer thread                                   *)
(*     (_maybe_auto_download_default_piper_model, _download_to_path),      *)
(*   - the lifespan hook that spawns it,                                   *)
(*   - the event loop running the health_check and synthesize handlers.    *)
(* The acquirer runs on its own thread and interleaves with the handlers;  *)
(* the handlers are "async def" coroutines without awaits, so the event    *)
(* loop runs one handler at a time.                                        *)
(***************************************************************************)
EXTENDS Integers, Sequences, FiniteSets, TLC

\* ---------------------------------------------------------------- bounds
\* number of requests the event loop serves in one behaviour (the handlers
\* keep no state from one request to the next, and the one request arrives
\* at any point of the acquirer's run)
MaxRequests == 1
\* number of chunks of a served artifact
NChunks == 2
\* longest request text
MaxTextLen == 1
\* longest PCM output of the neural engine that is carried in a response
MaxPcmLen == 1

\* ------------------------------------------------------------- constants
\* SynthesizeRequest.text: Field(..., min_length=1)
MinLength == 1

\* Python's None
None == "<None>"

\* ------------------------------------------------------------ filesystem
\* the two default artifacts: PIPER_MODEL_PATH and PIPER_CONFIG_PATH
Paths == {"model", "config"}

Absent == [present |-> FALSE, data |-> <<>>]

File(d) == [present |-> TRUE, data |-> d]

\* Path.exists()
Exists(f, p) == f[p].present

\* content of an artifact that was on disk before the process started
OldData == <<12>>

\* the bodies the artifact server may send: the published artifact, or
\* different bytes
Good == [i \in 1..NChunks |-> 10]

Corrupt == [i \in 1..NChunks |-> 11]

Served == {Good, Corrupt}

\* -------------------------------------------------------------- checksums
HexDigits == <<"0", "1", "2", "3", "4", "5", "6", "7", "8", "9",
               "a", "b", "c", "d", "e", "f">>

\* hashlib.md5().hexdigest(): lowercase hex text, injective on the bodies
\* of the model (one hex digit per chunk)
Md5Hex(data) == [i \in 1..Len(data) |-> HexDigits[data[i] + 1]]

LowerChar(c) ==
    CASE c = "A" -> "a" [] c = "B" -> "b" [] c = "C" -> "c"
      [] c = "D" -> "d" [] c = "E" -> "e" [] c = "F" -> "f"
      [] OTHER -> c

UpperChar(c) ==
    CASE c = "a" -> "A" [] c = "b" -> "B" [] c = "c" -> "C"
      [] c = "d" -> "D" [] c = "e" -> "E" [] c = "f" -> "F"
      [] OTHER -> c

\* str.lower()
Lower(s) == [i \in 1..Len(s) |-> LowerChar(s[i])]

Upper(s) == [i \in 1..Len(s) |-> UpperChar(s[i])]

\* a digest that is None (the index entry has no md5_digest)
NoDigest == <<"None">>

\* "if expected_md5" : None and "" are falsy
Truthy(s) == s # NoDigest /\ s # <<>>

Md5MismatchUnchecked(expected, actual) == FALSE

\* expected_md5 and actual_md5.lower() != expected_md5.lower()
Md5Mismatch(expected, actual) ==
    Truthy(expected) /\ Lower(actual) # Lower(expected)

\* the md5_digest values an index entry may carry for an artifact
ExpectedDigests == {NoDigest, Upper(Md5Hex(Good))}

\* ------------------------------------------------------------ exceptions
\* what urlopen() / resp.read() raise: URLError (also HTTPError),
\* TimeoutError (socket timeout while reading), ConnectionResetError
\* (RemoteDisconnected from getresponse(), ECONNRESET while reading)
NetworkErrors == {"URLError", "TimeoutError", "ConnectionResetError"}

\* except (urllib.error.URLError, TimeoutError, ValueError, json.JSONDecodeError)
CaughtExceptions == {"URLError", "TimeoutError", "ValueError", "JSONDecodeError"}

\* str(e)
ErrStr(e) ==
    CASE e = "URLError" -> "<urlopen error>"
      [] e = "TimeoutError" -> "timed out"
      [] e = "ValueError" -> "MD5 mismatch"
      [] e = "JSONDecodeError" -> "Expecting value"
      [] OTHER -> e

MsgNotFound == "Default Piper voice id not found in voices index"

MsgNoPaths == "voices index entry missing .onnx/.onnx.json paths"

\* ------------------------------------------------------------ voices index
\* what json.loads() of the index body can be: a JSON value that is not an
\* object; an object without the voice id ("absent"), with a falsy entry
\* ("empty"), with an entry that is not an object ("string"), or with an
\* object entry naming some of the two files and their digests
NoDigests == [p \in Paths |-> NoDigest]

IndexEntry(k, e, o, j, m) ==
    [kind |-> k, entry |-> e, onnx |-> o, json |-> j, md5 |-> m]

IndexValues ==
    {IndexEntry("list", "absent", FALSE, FALSE, NoDigests)}
    \cup {IndexEntry("dict", e, FALSE, FALSE, NoDigests) :
            e \in {"absent", "empty", "string"}}
    \cup {IndexEntry("dict", "dict", o, FALSE, NoDigests) : o \in BOOLEAN}
    \cup {IndexEntry("dict", "dict", FALSE, TRUE, NoDigests)}
    \cup {IndexEntry("dict", "dict", TRUE, TRUE, m) :
            m \in [Paths -> ExpectedDigests]}

\* ------------------------------------------------------------------ state
VARIABLES
    autoDownload,   \* AUTO_DOWNLOAD_DEFAULT_PIPER_MODEL
    sameFs,         \* the temporary directory and the models directory are
                    \* on one filesystem (os.rename works across them)
    fs,             \* the files at PIPER_MODEL_PATH and PIPER_CONFIG_PATH
    fs0,            \* fs at process start
    status,         \* _default_model_status
    lock,           \* holder of _default_model_status_lock
    committed,      \* the values status had when the lock was released
    lifespanPc,     \* position of lifespan()
    threadsStarted, \* acquirer threads started so far
    acqPc,          \* position of the acquirer thread
    acq,            \* locals of the acquirer thread
    netOps,         \* network operations begun by the acquirer
    fsWrites,       \* writes of the acquirer under a final path
    failure,        \* the failure the acquirer ran into, if any
    reqPc,          \* position of the handler the event loop is running
    req,            \* the request being handled
    loc,            \* locals of the handler
    resp,           \* the last response sent
    reqCount,       \* requests accepted so far
    subprocCalls    \* engine subprocesses started so far

vars == <<autoDownload, sameFs, fs, fs0, status, lock, committed,
          lifespanPc, threadsStarted, acqPc, acq, netOps, fsWrites, failure,
          reqPc, req, loc, resp, reqCount, subprocCalls>>

envVars == <<autoDownload, sameFs, fs0>>

acqVars == <<acqPc, acq, netOps, fsWrites, failure>>

reqVars == <<reqPc, req, loc, resp, reqCount, subprocCalls>>

DEFAULT_PIPER_VOICE_ID == "en_US-lessac-medium"

States == {"disabled", "not_needed", "in_progress", "done", "failed"}

InitialStateAlwaysInProgress(flag) == "in_progress"

\* state="disabled" if not AUTO_DOWNLOAD_DEFAULT_PIPER_MODEL else "in_progress"
InitialState(flag) == IF ~flag THEN "disabled" ELSE "in_progress"

NoFailure == [at |-> None, kind |-> None]

NoPending == [state |-> None, error |-> None, next |-> None]

AcqLocals0 ==
    [pend |-> NoPending,
     voices |-> IndexEntry(None, "absent", FALSE, FALSE, NoDigests),
     cur |-> None, served |-> <<>>,
     tmp |-> Absent, md5 |-> <<>>,
     expected |-> NoDigests, actual |-> NoDigests, exc |-> None]

NoRequest == [kind |-> None]

NoResponse == [kind |-> None]

Init ==
    /\ autoDownload \in BOOLEAN
    /\ sameFs \in BOOLEAN
    /\ fs \in [Paths -> {Absent, File(OldData)}]
    /\ fs0 = fs
    /\ status = [enabled |-> autoDownload, voice_id |-> DEFAULT_PIPER_VOICE_ID,
                 state |-> InitialState(autoDownload), error |-> None]
    /\ lock = "free"
    /\ committed = {status}
    /\ lifespanPc = "startup"
    /\ threadsStarted = 0
    /\ acqPc = "not_started"
    /\ acq = AcqLocals0
    /\ netOps = 0
    /\ fsWrites = 0
    /\ failure = NoFailure
    /\ reqPc = "idle"
    /\ req = NoRequest
    /\ loc = NoRequest
    /\ resp = NoResponse
    /\ reqCount = 0
    /\ subprocCalls = 0

\* --------------------------------------------------------------- lifespan
\* threading.Thread(target=..., daemon=True).start()
LifespanSpawn ==
    /\ lifespanPc = "startup"
    /\ lifespanPc' = "spawned"
    /\ threadsStarted' = threadsStarted + 1
    /\ acqPc' = "start"
    /\ UNCHANGED <<envVars, committed, fs, status, lock, acq, netOps, fsWrites, failure,
                   reqVars>>

LifespanYieldJoinsAcquirer ==
    /\ lifespanPc = "spawned"
    /\ acqPc = "ended"
    /\ lifespanPc' = "serving"
    /\ UNCHANGED <<envVars, committed, fs, status, lock, threadsStarted, acqVars,
                   reqVars>>

\* hardware banner, then "yield": the application starts serving
LifespanYield ==
    /\ lifespanPc = "spawned"
    /\ lifespanPc' = "serving"
    /\ UNCHANGED <<envVars, committed, fs, status, lock, threadsStarted, acqVars, reqVars>>

\* --------------------------------------------------------------- acquirer
LockFreeIgnored(l) == TRUE

\* threading.Lock: acquire() blocks while the lock is held
LockFree(l) == l = "free"

BothExistSkipped(f) == FALSE

\* PIPER_MODEL_PATH.exists() and PIPER_CONFIG_PATH.exists()
BothExist(f) == Exists(f, "model") /\ Exists(f, "config")

\* a write of (state, error) to do under the lock, then continue at next
Pending(s, e, n) == [state |-> s, error |-> e, next |-> n]

\* "with _default_model_status_lock:" at the top of the acquirer
AcqEnter ==
    /\ acqPc = "start"
    /\ LockFree(lock)
    /\ lock' = "acquirer"
    /\ acqPc' = "l_ids"
    /\ UNCHANGED <<envVars, committed, fs, status, lifespanPc, threadsStarted, acq,
                   netOps, fsWrites, failure, reqVars>>

\* enabled and voice_id are set, then the branch is chosen
AcqIds ==
    /\ acqPc = "l_ids"
    /\ status' = [status EXCEPT !.enabled = autoDownload,
                                !.voice_id = DEFAULT_PIPER_VOICE_ID]
    /\ acq' = [acq EXCEPT !.pend =
                 IF ~autoDownload THEN Pending("disabled", None, "ended")
                 ELSE IF BothExist(fs) THEN Pending("not_needed", None, "ended")
                 ELSE Pending("in_progress", None, "index_open")]
    /\ acqPc' = "w_state"
    /\ UNCHANGED <<envVars, committed, fs, lock, lifespanPc, threadsStarted, netOps,
                   fsWrites, failure, reqVars>>

\* "with _default_model_status_lock:" of a later write
AcqLock ==
    /\ acqPc = "w_lock"
    /\ LockFree(lock)
    /\ lock' = "acquirer"
    /\ acqPc' = "w_state"
    /\ UNCHANGED <<envVars, committed, fs, status, lifespanPc, threadsStarted, acq,
                   netOps, fsWrites, failure, reqVars>>

\* _default_model_status.state = ...
AcqWriteState ==
    /\ acqPc = "w_state"
    /\ status' = [status EXCEPT !.state = acq.pend.state]
    /\ acqPc' = "w_error"
    /\ UNCHANGED <<envVars, committed, fs, lock, lifespanPc, threadsStarted, acq, netOps,
                   fsWrites, failure, reqVars>>

\* _default_model_status.error = ...
AcqWriteError ==
    /\ acqPc = "w_error"
    /\ status' = [status EXCEPT !.error = acq.pend.error]
    /\ acqPc' = "w_unlock"
    /\ UNCHANGED <<envVars, committed, fs, lock, lifespanPc, threadsStarted, acq, netOps,
                   fsWrites, failure, reqVars>>

\* the end of the "with" block
AcqUnlock ==
    /\ acqPc = "w_unlock"
    /\ lock' = "free"
    /\ committed' = committed \cup {status}
    /\ acqPc' = acq.pend.next
    /\ UNCHANGED <<envVars, fs, status, lifespanPc, threadsStarted, acq,
                   netOps, fsWrites, failure, reqVars>>

\* an exception e raised inside the try block, at step "at": the except
\* clause records it, any other exception ends the thread
AcqRaise(e, at, a) ==
    /\ failure' = [at |-> at, kind |-> e]
    /\ IF e \in CaughtExceptions
         THEN /\ acqPc' = "w_lock"
              /\ acq' = [a EXCEPT !.pend = Pending("failed", ErrStr(e), "ended")]
         ELSE /\ acqPc' = "ended"
              /\ acq' = [a EXCEPT !.exc = e]

\* urllib.request.urlopen(PIPER_VOICES_INDEX_URL, timeout=30)
AcqIndexOpen ==
    /\ acqPc = "index_open"
    /\ netOps' = netOps + 1
    /\ acqPc' = "index_wait"
    /\ UNCHANGED <<envVars, committed, fs, status, lock, lifespanPc, threadsStarted, acq,
                   fsWrites, failure, reqVars>>

\* the fetch ends: an error, a body that is not JSON, or a JSON value
AcqIndexDone ==
    /\ acqPc = "index_wait"
    /\ \/ \E e \in NetworkErrors \cup {"JSONDecodeError"} :
            AcqRaise(e, "index", acq)
       \/ \E v \in IndexValues :
            /\ acq' = [acq EXCEPT !.voices = v]
            /\ acqPc' = "lookup"
            /\ UNCHANGED failure
    /\ UNCHANGED <<envVars, committed, fs, status, lock, lifespanPc, threadsStarted,
                   netOps, fsWrites, reqVars>>

\* voices.get(...), the two "not found" returns, and the choice of the two
\* files and their digests
AcqLookup ==
    /\ acqPc = "lookup"
    /\ LET v == acq.voices IN
       IF v.kind # "dict" \/ v.entry = "string"
         THEN AcqRaise("AttributeError", "lookup", acq)
       ELSE IF v.entry \in {"absent", "empty"}
         THEN /\ failure' = [at |-> "lookup", kind |-> "voice_absent"]
              /\ acq' = [acq EXCEPT !.pend = Pending("failed", MsgNotFound, "ended")]
              /\ acqPc' = "w_lock"
       ELSE IF ~v.onnx \/ ~v.json
         THEN /\ failure' = [at |-> "lookup", kind |-> "paths_missing"]
              /\ acq' = [acq EXCEPT !.pend = Pending("failed", MsgNoPaths, "ended")]
              /\ acqPc' = "w_lock"
       ELSE /\ acq' = [acq EXCEPT !.expected = v.md5, !.cur = "model"]
            /\ acqPc' = "dl_open"
            /\ UNCHANGED failure
    /\ UNCHANGED <<envVars, committed, fs, status, lock, lifespanPc, threadsStarted,
                   netOps, fsWrites, reqVars>>

\* _download_to_path: mkdir of the parent, then urlopen(url, timeout=300)
AcqDlOpen ==
    /\ acqPc = "dl_open"
    /\ netOps' = netOps + 1
    /\ acqPc' = "dl_wait"
    /\ UNCHANGED <<envVars, committed, fs, status, lock, lifespanPc, threadsStarted, acq,
                   fsWrites, failure, reqVars>>

\* urlopen returns a response (the server sends one of the bodies) and the
\* temporary file is created, or urlopen raises
AcqDlConnect ==
    /\ acqPc = "dl_wait"
    /\ \/ \E e \in NetworkErrors : AcqRaise(e, acq.cur, acq)
       \/ \E body \in Served :
            /\ acq' = [acq EXCEPT !.served = body, !.tmp = File(<<>>),
                                  !.md5 = <<>>]
            /\ acqPc' = "dl_read"
            /\ UNCHANGED failure
    /\ UNCHANGED <<envVars, committed, fs, status, lock, lifespanPc, threadsStarted,
                   netOps, fsWrites, reqVars>>

\* one turn of the read loop: a chunk is written and hashed, or resp.read
\* raises (the temporary file stays: delete=False)
AcqDlRead ==
    /\ acqPc = "dl_read"
    /\ Len(acq.tmp.data) < Len(acq.served)
    /\ \/ \E e \in {"TimeoutError", "ConnectionResetError"} :
            AcqRaise(e, acq.cur, acq)
       \/ LET chunk == acq.served[Len(acq.tmp.data) + 1] IN
            /\ acq' = [acq EXCEPT !.tmp = File(Append(acq.tmp.data, chunk)),
                                  !.md5 = Append(acq.md5, chunk)]
            /\ UNCHANGED <<acqPc, failure>>
    /\ UNCHANGED <<envVars, committed, fs, status, lock, lifespanPc, threadsStarted,
                   netOps, fsWrites, reqVars>>

\* end of the body: hexdigest, and on a mismatch unlink and ValueError
AcqDlVerify ==
    /\ acqPc = "dl_read"
    /\ Len(acq.tmp.data) = Len(acq.served)
    /\ LET actual == Md5Hex(acq.md5)
           a == [acq EXCEPT !.actual[acq.cur] = actual] IN
       IF Md5Mismatch(acq.expected[acq.cur], actual)
         THEN AcqRaise("ValueError", acq.cur, [a EXCEPT !.tmp = Absent])
         ELSE /\ acq' = a
              /\ acqPc' = "dl_move"
              /\ UNCHANGED failure
    /\ UNCHANGED <<envVars, committed, fs, status, lock, lifespanPc, threadsStarted,
                   netOps, fsWrites, reqVars>>

\* what follows a finished _download_to_path: the second download, or the
\* write of "done"
AfterDownload(a) ==
    IF a.cur = "model"
      THEN /\ acq' = [a EXCEPT !.cur = "config"]
           /\ acqPc' = "dl_open"
      ELSE /\ acq' = [a EXCEPT !.pend = Pending("done", None, "ended")]
           /\ acqPc' = "w_lock"

\* shutil.move(tmp_path, dest): os.rename when both are on one filesystem,
\* else copy2 (dest is opened for writing and truncated) and unlink
AcqDlMove ==
    /\ acqPc = "dl_move"
    /\ fsWrites' = fsWrites + 1
    /\ IF sameFs
         THEN /\ fs' = [fs EXCEPT ![acq.cur] = File(acq.tmp.data)]
              /\ AfterDownload([acq EXCEPT !.tmp = Absent])
         ELSE /\ fs' = [fs EXCEPT ![acq.cur] = File(<<>>)]
              /\ acqPc' = "dl_copy"
              /\ UNCHANGED acq
    /\ UNCHANGED <<envVars, committed, status, lock, lifespanPc, threadsStarted, netOps,
                   failure, reqVars>>

\* copy2 writes the next block of the temporary file to dest
AcqDlCopy ==
    /\ acqPc = "dl_copy"
    /\ Len(fs[acq.cur].data) < Len(acq.tmp.data)
    /\ fs' = [fs EXCEPT ![acq.cur] =
                File(Append(fs[acq.cur].data,
                            acq.tmp.data[Len(fs[acq.cur].data) + 1]))]
    /\ UNCHANGED <<envVars, committed, status, lock, lifespanPc, threadsStarted, acqVars,
                   reqVars>>

\* the copy is complete: os.unlink(tmp_path)
AcqDlCopyDone ==
    /\ acqPc = "dl_copy"
    /\ Len(fs[acq.cur].data) = Len(acq.tmp.data)
    /\ AfterDownload([acq EXCEPT !.tmp = Absent])
    /\ UNCHANGED <<envVars, committed, fs, status, lock, lifespanPc, threadsStarted,
                   netOps, fsWrites, failure, reqVars>>

Acquirer ==
    \/ AcqEnter \/ AcqIds \/ AcqLock \/ AcqWriteState \/ AcqWriteError
    \/ AcqUnlock \/ AcqIndexOpen \/ AcqIndexDone \/ AcqLookup \/ AcqDlOpen
    \/ AcqDlConnect \/ AcqDlRead \/ AcqDlVerify \/ AcqDlMove \/ AcqDlCopy
    \/ AcqDlCopyDone

\* ------------------------------------------------------------- event loop
\* the voice ids a request may name: the one under the models root, one
\* that is not there, and the empty string
VoiceIds == {"voice", "nope", ""}

Texts == UNION {[1..n -> {"h"}] : n \in 0..MaxTextLen}

HealthRequest == [kind |-> "health"]

SynthRequest(t, e, v, l) ==
    [kind |-> "synth", text |-> t, engine |-> e, voice |-> v, language |-> l]

\* the texts at the validation boundary: the empty one and the shortest valid
ShortTexts == {t \in Texts : Len(t) <= MinLength}

\* the requests of the model: voice matters to the neural engine only and
\* language to the classic engine only; the neural engine is selected by
\* default with every voice and explicitly with the default voice; a text
\* longer than the shortest valid one is handled like it and comes with the
\* explicit neural request
Requests ==
    {HealthRequest}
    \cup {SynthRequest(t, None, v, None) :
            t \in ShortTexts, v \in {None} \cup VoiceIds}
    \cup {SynthRequest(t, "piper", None, None) : t \in Texts}
    \cup {SynthRequest(t, "espeak", None, l) :
            t \in ShortTexts, l \in {None, "xx"}}

TextValidAny(t) == TRUE

\* text: str = Field(..., min_length=1)
TextValid(t) == Len(t) >= MinLength

\* _discover_piper_voices(): one descriptor per *.onnx under the models
\* root, which holds the default artifacts (MODELS_DIR / "voice.onnx")
DiscoverPiperVoices(f) ==
    IF Exists(f, "model")
      THEN <<[id |-> "voice", model_path |-> "model", config_path |-> "config",
              ready |-> Exists(f, "model") /\ Exists(f, "config")]>>
      ELSE <<>>

\* a request arrives while the application is serving; the framework
\* validates a synthesize body before it calls the handler
Accept ==
    /\ lifespanPc = "serving"
    /\ reqPc = "idle"
    /\ reqCount < MaxRequests
    /\ \E r \in Requests :
         /\ req' = r
         /\ reqPc' = IF r.kind = "health" THEN "h_probe" ELSE "s_validate"
    /\ reqCount' = reqCount + 1
    /\ resp' = NoResponse
    /\ loc' = NoRequest
    /\ UNCHANGED <<envVars, committed, fs, status, lock, lifespanPc,
                   threadsStarted, acqVars, subprocCalls>>

\* health_check, up to get_hardware_info(): the binaries and the default
\* artifacts are probed
HealthProbe ==
    /\ reqPc = "h_probe"
    /\ \E pb, eb \in BOOLEAN :
         loc' = [piper_bin_exists |-> pb,
                 piper_model_exists |-> Exists(fs, "model"),
                 piper_config_exists |-> Exists(fs, "config"),
                 espeak_bin_exists |-> eb,
                 download_status |-> [enabled |-> FALSE, voice_id |-> None,
                                      state |-> None, error |-> None]]
    /\ reqPc' = "h_lock"
    /\ UNCHANGED <<envVars, committed, fs, status, lock, lifespanPc,
                   threadsStarted, acqVars, req, resp, reqCount, subprocCalls>>

\* "with _default_model_status_lock:" in health_check
HealthLock ==
    /\ reqPc = "h_lock"
    /\ LockFree(lock)
    /\ lock' = "health"
    /\ reqPc' = "h_read_state"
    /\ UNCHANGED <<envVars, committed, fs, status, lifespanPc, threadsStarted,
                   acqVars, req, loc, resp, reqCount, subprocCalls>>

\* "enabled", "voice_id" and "state" of the snapshot
HealthReadState ==
    /\ reqPc = "h_read_state"
    /\ loc' = [loc EXCEPT !.download_status.enabled = status.enabled,
                          !.download_status.voice_id = status.voice_id,
                          !.download_status.state = status.state]
    /\ reqPc' = "h_read_error"
    /\ UNCHANGED <<envVars, committed, fs, status, lock, lifespanPc,
                   threadsStarted, acqVars, req, resp, reqCount, subprocCalls>>

\* "error" of the snapshot
HealthReadError ==
    /\ reqPc = "h_read_error"
    /\ loc' = [loc EXCEPT !.download_status.error = status.error]
    /\ reqPc' = "h_unlock"
    /\ UNCHANGED <<envVars, committed, fs, status, lock, lifespanPc,
                   threadsStarted, acqVars, req, resp, reqCount, subprocCalls>>

\* the end of the "with" block in health_check
HealthUnlock ==
    /\ reqPc = "h_unlock"
    /\ lock' = "free"
    /\ reqPc' = "h_finish"
    /\ UNCHANGED <<envVars, committed, fs, status, lifespanPc, threadsStarted,
                   acqVars, req, loc, resp, reqCount, subprocCalls>>

\* the descriptors of voices other than the default one that a scan of the
\* models root may find before it ("other" sorts before "voice")
OtherVoices ==
    {<<>>,
     <<[id |-> "other", model_path |-> "other.onnx",
        config_path |-> "other.onnx.json", ready |-> TRUE]>>}

OverallOkBoth(piper_ready, espeak_ready) == piper_ready /\ espeak_ready

OverallOkPiperOnly(piper_ready, espeak_ready) == piper_ready

\* overall_ok = piper_ready or espeak_ready
OverallOk(piper_ready, espeak_ready) == piper_ready \/ espeak_ready

\* the voices are discovered and the response is built
HealthFinish ==
    /\ reqPc = "h_finish"
    /\ \E others \in OtherVoices :
       LET piper_voices == others \o DiscoverPiperVoices(fs)
           piper_ready == loc.piper_bin_exists /\ loc.piper_model_exists
                          /\ loc.piper_config_exists
           espeak_ready == loc.espeak_bin_exists
       IN resp' = [kind |-> "health",
                   status |-> IF OverallOk(piper_ready, espeak_ready)
                                THEN "healthy" ELSE "degraded",
                   model_loaded |-> piper_ready,
                   default_model_download |-> loc.download_status,
                   piper_available |-> loc.piper_bin_exists,
                   model_exists |-> loc.piper_model_exists,
                   config_exists |-> loc.piper_config_exists,
                   espeak_available |-> loc.espeak_bin_exists,
                   espeak_ready |-> espeak_ready,
                   piper_total |-> Len(piper_voices),
                   piper_ready |-> Cardinality({i \in 1..Len(piper_voices) :
                                                  piper_voices[i].ready})]
    /\ reqPc' = "idle"
    /\ UNCHANGED <<envVars, committed, fs, status, lock, lifespanPc,
                   threadsStarted, acqVars, req, loc, reqCount, subprocCalls>>

Health ==
    \/ HealthProbe \/ HealthLock \/ HealthReadState \/ HealthReadError
    \/ HealthUnlock \/ HealthFinish

\* ------------------------------------------------------------- WAV header
\* Python integers are unbounded; a size is kept as hi * 65536 + lo
Big(n) == [hi |-> n \div 65536, lo |-> n % 65536]

BigAdd(b, n) ==
    [hi |-> b.hi + ((b.lo + n) \div 65536), lo |-> (b.lo + n) % 65536]

NoBytes == [ok |-> FALSE, bytes |-> <<>>]

\* int.to_bytes(4, 'little'): OverflowError from 2^32 on
ToBytes4(b) ==
    IF b.hi >= 65536 THEN NoBytes
    ELSE [ok |-> TRUE,
          bytes |-> <<b.lo % 256, b.lo \div 256, b.hi % 256, b.hi \div 256>>]

\* int.to_bytes(2, 'little'), for the fixed format fields
ToBytes2(n) == <<n % 256, n \div 256>>

\* defaults of _create_wav_header
SampleRate == 22050

BitsPerSample == 16

Channels == 1

\* b'RIFF', b'WAVE', b'fmt ', b'data'
RIFF == <<82, 73, 70, 70>>

WAVE == <<87, 65, 86, 69>>

FMT == <<102, 109, 116, 32>>

DATA == <<100, 97, 116, 97>>

CreateWavHeaderSizeOnly(data_size) ==
    LET byte_rate == (SampleRate * Channels * BitsPerSample) \div 8
        block_align == (Channels * BitsPerSample) \div 8
        riff_size == ToBytes4(data_size)
        data_len == ToBytes4(data_size)
    IN IF ~riff_size.ok
         THEN NoBytes
         ELSE [ok |-> TRUE,
               bytes |-> RIFF \o riff_size.bytes \o WAVE
                         \o FMT \o ToBytes4(Big(16)).bytes \o ToBytes2(1)
                         \o ToBytes2(Channels) \o ToBytes4(Big(SampleRate)).bytes
                         \o ToBytes4(Big(byte_rate)).bytes
                         \o ToBytes2(block_align) \o ToBytes2(BitsPerSample)
                         \o DATA \o data_len.bytes]

\* _create_wav_header(data_size): the 44 bytes, or OverflowError (ok FALSE)
CreateWavHeader(data_size) ==
    LET byte_rate == (SampleRate * Channels * BitsPerSample) \div 8
        block_align == (Channels * BitsPerSample) \div 8
        riff_size == ToBytes4(BigAdd(data_size, 36))
        data_len == ToBytes4(data_size)
    IN IF ~riff_size.ok \/ ~data_len.ok
         THEN NoBytes
         ELSE [ok |-> TRUE,
               bytes |-> RIFF \o riff_size.bytes \o WAVE
                         \o FMT \o ToBytes4(Big(16)).bytes \o ToBytes2(1)
                         \o ToBytes2(Channels) \o ToBytes4(Big(SampleRate)).bytes
                         \o ToBytes4(Big(byte_rate)).bytes
                         \o ToBytes2(block_align) \o ToBytes2(BitsPerSample)
                         \o DATA \o data_len.bytes]

\* -------------------------------------------------------------- synthesize
\* a synthesize response: the HTTP status, the failure of the error
\* taxonomy it stands for, the detail text, and what produced it; body is
\* the audio of a 200 response and stderr the engine's error text carried
\* in the detail of a failure
SynthResponse(code, err, detail, engine, outcome) ==
    [kind |-> "synth", status |-> code, error |-> err, detail |-> detail,
     engine |-> engine, outcome |-> outcome, body |-> <<>>, stderr |-> None,
     produced |-> <<>>]

\* how an engine subprocess can end: exit 0, the 30 s timeout, a non-zero
\* exit (for espeak-ng with or without "voice does not exist" on stderr),
\* or the executable is missing (FileNotFoundError)
PiperOutcomes == {"ok", "timeout", "exit_nonzero", "no_executable"}

EspeakOutcomes == {"ok", "timeout", "exit_no_voice", "exit_nonzero",
                   "no_executable"}

\* the raw PCM the neural engine may write to stdout
PcmBytes == {0, 255}

PcmPayloads == UNION {[1..n -> PcmBytes] : n \in 0..MaxPcmLen}

\* the file espeak-ng may leave at the scratch path
EspeakFiles == {RIFF, <<1>>}

\* what an engine may write to stderr
NoVoiceTexts == {"Error: The voice does not exist", "VOICE DOES NOT EXIST"}

OtherTexts == {"segmentation fault"}

\* a finished run: how it ended, its output and its error text
Run(kind, out, err) == [kind |-> kind, out |-> out, stderr |-> err]

PiperRuns ==
    {Run("ok", pcm, "") : pcm \in PcmPayloads}
    \cup {Run("timeout", <<>>, ""), Run("no_executable", <<>>, "")}
    \cup {Run("exit_nonzero", <<>>, t) : t \in OtherTexts}

EspeakRuns ==
    {Run("ok", w, "") : w \in EspeakFiles}
    \cup {Run("timeout", <<>>, ""), Run("no_executable", <<>>, "")}
    \cup {Run("exit_no_voice", <<>>, t) : t \in NoVoiceTexts}
    \cup {Run("exit_nonzero", <<>>, t) : t \in OtherTexts}

\* stderr.lower()
TextLower(t) ==
    CASE t = "Error: The voice does not exist" -> "error: the voice does not exist"
      [] t = "VOICE DOES NOT EXIST" -> "voice does not exist"
      [] OTHER -> t

\* "voice does not exist" in stderr.lower()
HasNoVoiceSignature(t) ==
    TextLower(t) \in {"error: the voice does not exist", "voice does not exist"}

\* request validation by the framework: an invalid body is answered with
\* 422 and the handler is not called
SynthValidate ==
    /\ reqPc = "s_validate"
    /\ IF TextValid(req.text)
         THEN /\ reqPc' = "s_engine"
              /\ UNCHANGED resp
         ELSE /\ reqPc' = "idle"
              /\ resp' = SynthResponse(422, "ValidationError",
                                       "text too short", None, None)
    /\ UNCHANGED <<envVars, committed, fs, status, lock, lifespanPc,
                   threadsStarted, acqVars, req, loc, reqCount, subprocCalls>>

\* synthesize: the engine is decided; the classic engine is started at once
SynthEngine ==
    /\ reqPc = "s_engine"
    /\ LET engine == IF req.engine = None THEN "piper" ELSE req.engine IN
       IF engine = "espeak"
         THEN /\ loc' = [engine |-> engine,
                         lang |-> IF req.language = None THEN "en"
                                  ELSE req.language]
              /\ subprocCalls' = subprocCalls + 1
              /\ reqPc' = "s_espeak_run"
         ELSE /\ loc' = [engine |-> engine, model_path |-> None,
                         config_path |-> None]
              /\ reqPc' = "s_resolve"
              /\ UNCHANGED subprocCalls
    /\ UNCHANGED <<envVars, committed, fs, status, lock, lifespanPc,
                   threadsStarted, acqVars, req, resp, reqCount>>

\* the classic branch after subprocess.run: the file's bytes; 504 on
\* TimeoutExpired; on CalledProcessError 400 naming the language when stderr
\* has the signature, else 500 with the text; nothing else is caught, so any
\* other exception leaves the handler and the framework answers 500
EspeakResponse(run, lang) ==
    CASE run.kind = "ok" ->
           [SynthResponse(200, None, "wav file", "espeak", run.kind)
              EXCEPT !.body = run.out, !.produced = run.out]
      [] run.kind = "timeout" ->
           SynthResponse(504, "Timeout", "TTS synthesis timed out", "espeak",
                         run.kind)
      [] run.kind \in {"exit_no_voice", "exit_nonzero"} ->
           IF HasNoVoiceSignature(run.stderr)
             THEN SynthResponse(400, "InvalidVoice", lang, "espeak", run.kind)
             ELSE [SynthResponse(500, "EngineError", "eSpeak synthesis failed",
                                 "espeak", run.kind)
                     EXCEPT !.stderr = run.stderr]
      [] OTHER ->
           SynthResponse(500, "Unhandled", "Internal Server Error", "espeak",
                         run.kind)

\* subprocess.run([ESPEAK_BIN, ...], timeout=30) ends
SynthEspeakDone ==
    /\ reqPc = "s_espeak_run"
    /\ \E run \in EspeakRuns : resp' = EspeakResponse(run, loc.lang)
    /\ reqPc' = "idle"
    /\ UNCHANGED <<envVars, committed, fs, status, lock, lifespanPc,
                   threadsStarted, acqVars, req, loc, reqCount, subprocCalls>>

\* "if not voice_id": None and the empty string both select the default
VoiceGiven(v) == v # None /\ v # ""

\* what _resolve_piper_voice returns or raises
Resolved(model_path, config_path) ==
    [ok |-> TRUE, model_path |-> model_path, config_path |-> config_path,
     error |-> None, detail |-> None]

\* _resolve_piper_voice(voice_id) over the voices discovered at the call:
\* the default paths, the paths of the first voice whose id equals
\* voice_id, or HTTPException 404 naming voice_id
ResolvePiperVoice(voice_id, voices) ==
    LET hits == {i \in 1..Len(voices) : voices[i].id = voice_id} IN
    IF ~VoiceGiven(voice_id)
      THEN Resolved("model", "config")
    ELSE IF hits # {}
      THEN LET v == voices[CHOOSE i \in hits : \A j \in hits : i <= j] IN
           Resolved(v.model_path, v.config_path)
    ELSE [ok |-> FALSE, model_path |-> None, config_path |-> None,
          error |-> "NotFound", detail |-> voice_id]

\* model_path, config_path = _resolve_piper_voice(request.voice)
SynthResolve ==
    /\ reqPc = "s_resolve"
    /\ LET r == ResolvePiperVoice(req.voice, DiscoverPiperVoices(fs)) IN
       IF r.ok
         THEN /\ loc' = [loc EXCEPT !.model_path = r.model_path,
                                    !.config_path = r.config_path]
              /\ reqPc' = "s_check"
              /\ UNCHANGED resp
         ELSE /\ resp' = SynthResponse(404, r.error, r.detail, "piper", None)
              /\ reqPc' = "idle"
              /\ UNCHANGED loc
    /\ UNCHANGED <<envVars, committed, fs, status, lock, lifespanPc,
                   threadsStarted, acqVars, req, reqCount, subprocCalls>>

\* the existence check of both artifacts, then subprocess.run([PIPER_BIN, ...])
SynthCheck ==
    /\ reqPc = "s_check"
    /\ IF ~Exists(fs, loc.model_path) \/ ~Exists(fs, loc.config_path)
         THEN /\ resp' = SynthResponse(503, "NotReady", "Piper model not ready",
                                       "piper", None)
              /\ reqPc' = "idle"
              /\ UNCHANGED subprocCalls
         ELSE /\ subprocCalls' = subprocCalls + 1
              /\ reqPc' = "s_piper_run"
              /\ UNCHANGED resp
    /\ UNCHANGED <<envVars, committed, fs, status, lock, lifespanPc,
                   threadsStarted, acqVars, req, loc, reqCount>>

PiperResponseNoCatchAll(run) ==
    CASE run.kind = "ok" ->
           [SynthResponse(200, None, "wav header + pcm", "piper", run.kind)
              EXCEPT !.body = CreateWavHeader(Big(Len(run.out))).bytes \o run.out,
                     !.produced = run.out]
      [] run.kind = "timeout" ->
           SynthResponse(504, "Timeout", "TTS synthesis timed out", "piper",
                         run.kind)
      [] run.kind = "exit_nonzero" ->
           [SynthResponse(500, "EngineError", "TTS synthesis failed", "piper",
                          run.kind)
              EXCEPT !.stderr = run.stderr]
      [] OTHER ->
           SynthResponse(500, "Unhandled", "Internal Server Error", "piper",
                         run.kind)

\* the neural branch after subprocess.run: header + stdout; 504 on
\* TimeoutExpired; 500 with stderr on CalledProcessError; "except Exception"
\* turns anything else (no executable, a header that cannot be built) into
\* 500 "Unexpected error"
PiperResponse(run) ==
    LET header == CreateWavHeader(Big(Len(run.out))) IN
    CASE run.kind = "ok" /\ header.ok ->
           [SynthResponse(200, None, "wav header + pcm", "piper", run.kind)
              EXCEPT !.body = header.bytes \o run.out, !.produced = run.out]
      [] run.kind = "timeout" ->
           SynthResponse(504, "Timeout", "TTS synthesis timed out", "piper",
                         run.kind)
      [] run.kind = "exit_nonzero" ->
           [SynthResponse(500, "EngineError", "TTS synthesis failed", "piper",
                          run.kind)
              EXCEPT !.stderr = run.stderr]
      [] OTHER ->
           SynthResponse(500, "InternalError", "Unexpected error", "piper",
                         run.kind)

SynthPiperDoneFallsBack ==
    /\ reqPc = "s_piper_run"
    /\ \E run \in PiperRuns :
         IF run.kind = "ok"
           THEN /\ resp' = PiperResponse(run)
                /\ reqPc' = "idle"
                /\ UNCHANGED <<loc, subprocCalls>>
           ELSE /\ loc' = [engine |-> "espeak", lang |-> "en"]
                /\ subprocCalls' = subprocCalls + 1
                /\ reqPc' = "s_espeak_run"
                /\ UNCHANGED resp
    /\ UNCHANGED <<envVars, committed, fs, status, lock, lifespanPc,
                   threadsStarted, acqVars, req, reqCount>>

\* the neural engine ends
SynthPiperDone ==
    /\ reqPc = "s_piper_run"
    /\ \E run \in PiperRuns : resp' = PiperResponse(run)
    /\ reqPc' = "idle"
    /\ UNCHANGED <<envVars, committed, fs, status, lock, lifespanPc,
                   threadsStarted, acqVars, req, loc, reqCount, subprocCalls>>

Synthesize ==
    \/ SynthValidate \/ SynthEngine \/ SynthEspeakDone \/ SynthResolve
    \/ SynthCheck \/ SynthPiperDone

Next ==
    \/ LifespanSpawn \/ LifespanYield \/ Acquirer \/ Accept \/ Health
    \/ Synthesize

Spec == Init /\ [][Next]_vars

\* ========================================================= pure functions
\* ------------------------------------------------------------ voice catalog
\* A file name is the sequence of its character codes, a path relative to
\* the models root the sequence of its components, a tree the set of the
\* paths of its files.
MaxTreeFiles == 5

Dot == 46

Slash == 47

\* ".onnx" and ".json"
OnnxSuffix == <<46, 111, 110, 110, 120>>

JsonSuffix == <<46, 106, 115, 111, 110>>

\* "a", "b", "a-b" and "notes.txt"
NameA == <<97>>

NameB == <<98>>

NameAB == <<97, 45, 98>>

NotesTxt == <<110, 111, 116, 101, 115, 46, 116, 120, 116>>

\* the model files a tree may hold: a.onnx, a/b.onnx and a-b.onnx
ModelFiles ==
    {<<NameA \o OnnxSuffix>>, <<NameA, NameB \o OnnxSuffix>>,
     <<NameAB \o OnnxSuffix>>}

\* model_path.with_suffix(model_path.suffix + ".json")
ConfigPathOf(model_path) ==
    [model_path EXCEPT ![Len(model_path)] = @ \o JsonSuffix]

TreeFiles ==
    ModelFiles \cup {ConfigPathOf(m) : m \in ModelFiles} \cup {<<NotesTxt>>}

Trees == {t \in SUBSET TreeFiles : Cardinality(t) <= MaxTreeFiles}

\* the pattern "*.onnx" on a file name
MatchesOnnx(name) ==
    /\ Len(name) >= Len(OnnxSuffix)
    /\ SubSeq(name, Len(name) - Len(OnnxSuffix) + 1, Len(name)) = OnnxSuffix

\* str < str: by code point, a proper prefix first
RECURSIVE StrLess(_, _)
StrLess(a, b) ==
    IF b = <<>> THEN FALSE
    ELSE IF a = <<>> THEN TRUE
    ELSE IF Head(a) # Head(b) THEN Head(a) < Head(b)
    ELSE StrLess(Tail(a), Tail(b))

\* Path < Path: the sequences of components are compared, component by
\* component, each as a string
RECURSIVE PathLess(_, _)
PathLess(p, q) ==
    IF q = <<>> THEN FALSE
    ELSE IF p = <<>> THEN TRUE
    ELSE IF Head(p) # Head(q) THEN StrLess(Head(p), Head(q))
    ELSE PathLess(Tail(p), Tail(q))

\* str(path): the components joined by "/"
RECURSIVE PathStr(_)
PathStr(p) ==
    IF Len(p) = 0 THEN <<>>
    ELSE IF Len(p) = 1 THEN p[1]
    ELSE p[1] \o <<Slash>> \o PathStr(Tail(p))

\* PurePath.suffix of a name: from its last dot, unless that dot is the
\* first or the last character
LastDot(name) ==
    LET dots == {i \in 1..Len(name) : name[i] = Dot} IN
    IF dots = {} THEN 0 ELSE CHOOSE i \in dots : \A j \in dots : j <= i

\* rel.with_suffix(""): the last component loses its suffix
WithoutSuffix(p) ==
    LET name == p[Len(p)]
        i == LastDot(name)
    IN IF i > 1 /\ i < Len(name)
         THEN [p EXCEPT ![Len(p)] = SubSeq(name, 1, i - 1)]
         ELSE p

\* the files of tree t that models_dir.rglob("*.onnx") yields
OnnxFiles(t) == {p \in t : MatchesOnnx(p[Len(p)])}

\* the orders in which rglob may yield them: any
Scans(t) ==
    {s \in [1..Cardinality(OnnxFiles(t)) -> OnnxFiles(t)] :
       \A i, j \in DOMAIN s : i # j => s[i] # s[j]}

\* x put into the sorted sequence s
Insert(x, s) ==
    LET after == {i \in 1..Len(s) : PathLess(x, s[i])}
        k == IF after = {} THEN Len(s) + 1
             ELSE CHOOSE i \in after : \A j \in after : i <= j
    IN SubSeq(s, 1, k - 1) \o <<x>> \o SubSeq(s, k, Len(s))

SortedAsScanned(s) == s

\* sorted(...) of Path objects
RECURSIVE Sorted(_)
Sorted(s) == IF s = <<>> THEN <<>> ELSE Insert(Head(s), Sorted(Tail(s)))

\* _discover_piper_voices(models_dir) on tree t when rglob yields scan
DiscoverVoicesUnder(scan, t) ==
    LET models == Sorted(scan) IN
    [i \in 1..Len(models) |->
       LET model_path == models[i]
           config_path == ConfigPathOf(model_path)
       IN [id |-> PathStr(WithoutSuffix(model_path)),
           model_path |-> model_path,
           config_path |-> config_path,
           ready |-> model_path \in t /\ config_path \in t]]

\* ------------------------------------------------------- voice resolver
\* the voices a resolver call may find discovered, and the ids it is given
Voice(id) ==
    [id |-> id, model_path |-> id, config_path |-> id, ready |-> TRUE]

CatalogIds == {"a", "a/b", "voice"}

Catalogs ==
    {<<>>} \cup {<<Voice(i)>> : i \in CatalogIds}
    \cup {<<Voice(i), Voice(j)>> : i, j \in CatalogIds}

ResolveIds == {None, "", "a", "a/b", "a/", "voice", "nope"}

\* ----------------------------------------------- resource recommendation
MaxRam == 1300

MaxCores == 8

GpuTypes == {"cuda", "rocm", "openvino", "none"}

RecommendedRamNoBase(available_ram) ==
    IF available_ram \div 2 < 600 THEN available_ram \div 2 ELSE 600

\* recommended_ram = max(base_ram, min(600, available_ram // 2))
RecommendedRam(available_ram) ==
    LET base_ram == 300
        half == available_ram \div 2
        capped == IF half < 600 THEN half ELSE 600
    IN IF capped > base_ram THEN capped ELSE base_ram

RecommendedCpuUncapped(available_cpu) ==
    IF available_cpu \div 2 > 1 THEN available_cpu \div 2 ELSE 1

\* recommended_cpu = min(2, max(1, available_cpu // 2))
RecommendedCpu(available_cpu) ==
    LET half == available_cpu \div 2
        floored == IF half > 1 THEN half ELSE 1
    IN IF floored < 2 THEN floored ELSE 2

RecommendedAcceleratorCudaOnly(gpu_type) ==
    IF gpu_type = "cuda" THEN "cuda" ELSE "none"

\* "accelerator": hw["gpu_type"]
RecommendedAccelerator(gpu_type) == gpu_type

\* get_recommended_resources() on the detected hardware hw
GetRecommendedResources(hw) ==
    [ram_mb |-> RecommendedRam(hw.ram_mb),
     cpu_cores |-> RecommendedCpu(hw.cpu_cores),
     accelerator |-> RecommendedAccelerator(hw.gpu_type)]

\* ------------------------------------------------ the functions, applied
\* the data sizes a header is asked for: small ones and those around the
\* largest a 4-byte field holds (2^32 - 37, 2^32 - 36, 2^32 - 1, 2^32)
HeaderSizes ==
    {Big(n) : n \in 0..MaxPcmLen}
    \cup {Big(255), Big(256), Big(65535), Big(65536)}
    \cup {[hi |-> 65535, lo |-> 65499], [hi |-> 65535, lo |-> 65500],
          [hi |-> 65535, lo |-> 65535], [hi |-> 65536, lo |-> 0]}

Hardware ==
    [ram_mb : 0..MaxRam, cpu_cores : 1..MaxCores, gpu_type : GpuTypes]

\* one call of one function with its arguments
PureCalls ==
    {[kind |-> "wav_header", data_size |-> d] : d \in HeaderSizes}
    \cup {[kind |-> "wav", audio_data |-> a] : a \in PcmPayloads}
    \cup {[kind |-> "discover", tree |-> t] : t \in Trees}
    \cup {[kind |-> "resolve", voice_id |-> v, voices |-> c] :
            v \in ResolveIds, c \in Catalogs}
    \cup {[kind |-> "recommend", hw |-> h] : h \in Hardware}

PureInit ==
    /\ autoDownload = FALSE
    /\ sameFs = TRUE
    /\ fs = [p \in Paths |-> Absent]
    /\ fs0 = fs
    /\ status = [enabled |-> autoDownload, voice_id |-> DEFAULT_PIPER_VOICE_ID,
                 state |-> InitialState(autoDownload), error |-> None]
    /\ lock = "free"
    /\ committed = {status}
    /\ lifespanPc = "startup"
    /\ threadsStarted = 0
    /\ acqPc = "not_started"
    /\ acq = AcqLocals0
    /\ netOps = 0
    /\ fsWrites = 0
    /\ failure = NoFailure
    /\ reqPc = "call"
    /\ req \in PureCalls
    /\ loc = NoRequest
    /\ resp = NoResponse
    /\ reqCount = 0
    /\ subprocCalls = 0

\* _create_wav_header(data_size)
ApplyCreateWavHeader ==
    /\ reqPc = "call" /\ req.kind = "wav_header"
    /\ resp' = [kind |-> "wav_header", header |-> CreateWavHeader(req.data_size)]
    /\ reqPc' = "returned"
    /\ UNCHANGED <<envVars, committed, fs, status, lock, lifespanPc,
                   threadsStarted, acqVars, req, loc, reqCount, subprocCalls>>

\* wav_data = _create_wav_header(len(audio_data)) + audio_data
ApplyWavContainer ==
    /\ reqPc = "call" /\ req.kind = "wav"
    /\ LET header == CreateWavHeader(Big(Len(req.audio_data))) IN
       resp' = [kind |-> "wav", ok |-> header.ok,
                wav_data |-> header.bytes \o req.audio_data]
    /\ reqPc' = "returned"
    /\ UNCHANGED <<envVars, committed, fs, status, lock, lifespanPc,
                   threadsStarted, acqVars, req, loc, reqCount, subprocCalls>>

\* _discover_piper_voices() on the tree, a first and a second time with the
\* tree unchanged; each scan yields the files in an order of its own
ApplyDiscover ==
    /\ reqPc \in {"call", "returned"} /\ req.kind = "discover"
    /\ reqPc = "returned" => resp.calls = 1
    /\ \E scan \in Scans(req.tree) :
         resp' = [kind |-> "discover",
                  voices |-> DiscoverVoicesUnder(scan, req.tree),
                  previous |-> IF reqPc = "call" THEN <<>> ELSE resp.voices,
                  calls |-> IF reqPc = "call" THEN 1 ELSE 2]
    /\ reqPc' = "returned"
    /\ UNCHANGED <<envVars, committed, fs, status, lock, lifespanPc,
                   threadsStarted, acqVars, req, loc, reqCount, subprocCalls>>

\* _resolve_piper_voice(voice_id) with voices discovered
ApplyResolve ==
    /\ reqPc = "call" /\ req.kind = "resolve"
    /\ resp' = [kind |-> "resolve",
                result |-> ResolvePiperVoice(req.voice_id, req.voices)]
    /\ reqPc' = "returned"
    /\ UNCHANGED <<envVars, committed, fs, status, lock, lifespanPc,
                   threadsStarted, acqVars, req, loc, reqCount, subprocCalls>>

\* get_recommended_resources() with hw detected
ApplyRecommend ==
    /\ reqPc = "call" /\ req.kind = "recommend"
    /\ resp' = [kind |-> "recommend",
                result |-> GetRecommendedResources(req.hw)]
    /\ reqPc' = "returned"
    /\ UNCHANGED <<envVars, committed, fs, status, lock, lifespanPc,
                   threadsStarted, acqVars, req, loc, reqCount, subprocCalls>>

PureNext ==
    \/ ApplyCreateWavHeader \/ ApplyWavContainer \/ ApplyDiscover
    \/ ApplyResolve \/ ApplyRecommend

PureSpec == PureInit /\ [][PureNext]_vars

\* ================================================================= claims
Terminal == {"not_needed", "done", "failed"}

\* C1: with auto-acquisition enabled, once the acquirer task has ended the
\* state is one of not_needed, done, failed and never still in_progress,
\* whatever the index returned and whatever the fetch or a download raised.
C1_EndedImpliesTerminal ==
    (autoDownload /\ acqPc = "ended") => status.state \in Terminal

\* C2: the state starts as disabled (flag off) or in_progress (flag on);
\* it changes value only from in_progress, only to not_needed, done or
\* failed (hence at most once, and terminal states are absorbing); with the
\* flag off it is disabled in every reachable state.
C2_StateLifecycle ==
    /\ status.state = (IF autoDownload THEN "in_progress" ELSE "disabled")
    /\ [][status'.state # status.state =>
            (status.state = "in_progress" /\ status'.state \in Terminal)]_vars
    /\ [](~autoDownload => status.state = "disabled")

C2_Witness == acqPc = "ended" /\ status.state = "done"

\* the download of artifact p ended with a digest that differs, ignoring
\* case, from the digest the index gave for it
MismatchOn(p) ==
    /\ acq.actual[p] # NoDigest
    /\ acq.expected[p] # NoDigest
    /\ acq.expected[p] # <<>>
    /\ Lower(acq.actual[p]) # Lower(acq.expected[p])

FailedWithError ==
    status.state = "failed" /\ status.error # None /\ status.error # ""

\* C3 (as stated): after a checksum mismatch on an artifact, once the
\* acquirer has finished no file exists at that artifact's final path and
\* the status is failed with a non-empty error.
C3_NoFileAfterMismatch ==
    \A p \in Paths :
        (acqPc = "ended" /\ MismatchOn(p)) =>
            (~Exists(fs, p) /\ FailedWithError)

\* C3 (amended): after a checksum mismatch on an artifact, once the acquirer
\* has finished that artifact's final path holds exactly what it held at
\* process start (nothing of the download is there) and the status is
\* failed with a non-empty error.
C3_MismatchLeavesPathUntouched ==
    \A p \in Paths :
        (acqPc = "ended" /\ MismatchOn(p)) =>
            (fs[p] = fs0[p] /\ FailedWithError)

C3_Witness == acqPc = "ended" /\ MismatchOn("config") /\ ~Exists(fs, "config")

\* C4: at every interleaving a final path is either as it was (absent) or
\* holds a complete downloaded body, never a partially written artifact.
C4_NoPartialArtifact ==
    \A p \in Paths :
        fs[p] = fs0[p] \/ (fs[p].present /\ fs[p].data \in Served)

\* C5: with the feature enabled and both default artifacts on disk at
\* start, the acquirer goes from in_progress straight to not_needed, does
\* no network I/O and writes no file.
C5_NotNeededWithoutIO ==
    (autoDownload /\ Exists(fs0, "model") /\ Exists(fs0, "config")) =>
        /\ netOps = 0
        /\ fsWrites = 0
        /\ fs = fs0
        /\ acq.tmp = Absent
        /\ status.state \in {"in_progress", "not_needed"}
        /\ (acqPc = "ended" => status.state = "not_needed")

C5_Witness ==
    /\ autoDownload /\ Exists(fs0, "model") /\ Exists(fs0, "config")
    /\ acqPc = "ended" /\ status.state = "not_needed"

\* the failure causes the acquirer's contract lists
ListedCauses ==
    NetworkErrors \cup {"JSONDecodeError", "ValueError", "voice_absent",
                        "paths_missing"}

\* C6: after any listed failure (index unreachable or unparseable, voice id
\* absent, paths missing, checksum mismatch, network or timeout error) the
\* acquirer ends in state failed with the error recorded, never in done.
C6_ListedFailuresEndFailed ==
    (acqPc = "ended" /\ failure.kind \in ListedCauses) =>
        (status.state = "failed" /\ status.error # None)

\* C7: health reads the status and the acquirer writes it only while
\* holding the lock, and the snapshot a health response carries is the
\* status as one complete write left it: never state failed without an
\* error, nor another state with one.
C7_SnapshotIsOneWrite ==
    /\ reqPc \in {"h_read_state", "h_read_error", "h_unlock"} => lock = "health"
    /\ acqPc \in {"l_ids", "w_state", "w_error", "w_unlock"} => lock = "acquirer"
    /\ resp.kind = "health" =>
         /\ resp.default_model_download \in committed
         /\ (resp.default_model_download.state = "failed")
              <=> (resp.default_model_download.error # None)

C7_Witness ==
    /\ resp.kind = "health"
    /\ resp.default_model_download.state = "failed"
    /\ resp.default_model_download.error # None

\* the texts the acquirer records as its error
AcquirerErrors ==
    {ErrStr(e) : e \in CaughtExceptions} \cup {MsgNotFound, MsgNoPaths}

\* C8: acquirer failures stay out of request handling: a classic-engine
\* request is never held up and its response is decided by the engine's
\* outcome alone, no synthesize response carries the acquirer's error, and
\* health reports healthy whenever the classic binary is present, also in
\* state failed.
C8_FailuresDoNotPropagate ==
    /\ reqPc \in {"s_validate", "s_engine", "s_espeak_run"} => ENABLED Synthesize
    /\ resp.kind = "synth" =>
         /\ resp.detail \notin AcquirerErrors
         /\ resp.detail # status.error
         /\ resp.engine = "espeak" =>
              resp.status = (CASE resp.outcome = "ok" -> 200
                               [] resp.outcome = "timeout" -> 504
                               [] resp.outcome = "exit_no_voice" -> 400
                               [] OTHER -> 500)
    /\ (resp.kind = "health" /\ resp.espeak_available) => resp.status = "healthy"

C8_Witness ==
    /\ resp.kind = "health"
    /\ resp.default_model_download.state = "failed"
    /\ resp.espeak_available
    /\ ~resp.model_loaded
    /\ resp.status = "healthy"

\* the acquirer is inside a network operation
NetPcs == {"index_wait", "dl_wait", "dl_read"}

\* C9: one acquirer thread is started per process start; startup does not
\* wait for it; the lock is never held across a network operation, so a
\* health request that reaches the lock during an index fetch or a download
\* goes on at once.
C9_StartupDoesNotWait ==
    /\ threadsStarted <= 1
    /\ (lifespanPc # "startup") <=> (threadsStarted = 1)
    /\ lifespanPc = "spawned" => ENABLED LifespanYield
    /\ acqPc \in NetPcs => lock # "acquirer"
    /\ (reqPc = "h_lock" /\ acqPc \in NetPcs) => ENABLED HealthLock

C9_Witness ==
    /\ lifespanPc = "serving"
    /\ reqPc = "h_lock"
    /\ acqPc = "dl_read"
    /\ status.state = "in_progress"

EmptyTextRequest(r) == r.kind = "synth" /\ r.text = <<>>

\* C10: a synthesize request with empty text is answered with a validation
\* error (422) before an engine is selected, a voice resolved or a
\* subprocess started.
C10_EmptyTextRejected ==
    /\ [](EmptyTextRequest(req) =>
            /\ reqPc \in {"s_validate", "idle"}
            /\ reqPc = "idle" =>
                 /\ resp.kind = "synth"
                 /\ resp.status = 422
                 /\ resp.error = "ValidationError"
                 /\ resp.engine = None)
    /\ [][EmptyTextRequest(req') =>
            (subprocCalls' = subprocCalls /\ loc' = NoRequest)]_vars

C10_Witness ==
    EmptyTextRequest(req) /\ reqPc = "idle" /\ resp.status = 422

\* the engine a request selects: its engine field, else the neural engine
SelectedEngine(r) == IF r.engine = None THEN "piper" ELSE r.engine

\* C11: a synthesize request selects one engine, the explicit engine field
\* if present and the neural engine otherwise; a subprocess is started only
\* for that engine and at most once per request; when the subprocess ends,
\* however it ended, the handler answers at once with a response of the same
\* engine and starts nothing more.
C11_OneEngineAtMostOnce ==
    /\ [](subprocCalls <= reqCount)
    /\ [][/\ (reqPc = "s_engine" /\ reqPc' # reqPc) =>
               /\ loc'.engine = SelectedEngine(req)
               /\ (reqPc' = "s_espeak_run") <=> (SelectedEngine(req) = "espeak")
               /\ (reqPc' = "s_resolve") <=> (SelectedEngine(req) = "piper")
          /\ (subprocCalls' # subprocCalls) =>
               /\ subprocCalls' = subprocCalls + 1
               /\ \/ /\ reqPc = "s_engine" /\ reqPc' = "s_espeak_run"
                     /\ SelectedEngine(req) = "espeak"
                  \/ /\ reqPc = "s_check" /\ reqPc' = "s_piper_run"
                     /\ SelectedEngine(req) = "piper"
          /\ (reqPc \in {"s_espeak_run", "s_piper_run"} /\ reqPc' # reqPc) =>
               /\ reqPc' = "idle"
               /\ subprocCalls' = subprocCalls
               /\ resp'.kind = "synth"
               /\ resp'.engine = SelectedEngine(req)]_vars

C11_Witness ==
    /\ reqPc = "idle"
    /\ req.kind = "synth"
    /\ req.engine = None
    /\ resp.kind = "synth"
    /\ resp.engine = "piper"
    /\ resp.outcome = "timeout"
    /\ subprocCalls = 1

\* the ids of the neural voices discovered on filesystem f
DiscoveredIds(f) ==
    {DiscoverPiperVoices(f)[i].id : i \in 1..Len(DiscoverPiperVoices(f))}

\* C12: on the neural path a request naming a voice id that matches no
\* discovered voice is answered NotFound, and one whose resolved model or
\* configuration artifact is missing is answered NotReady; neither starts
\* the engine, and the engine is started only after the voice was resolved
\* and then both artifacts were found.
C12_NotFoundThenNotReady ==
    [][/\ (reqPc = "s_resolve" /\ reqPc' # reqPc
           /\ req.voice # None /\ req.voice \notin DiscoveredIds(fs)) =>
            /\ reqPc' = "idle"
            /\ resp'.kind = "synth"
            /\ resp'.error = "NotFound"
            /\ resp'.detail = req.voice
            /\ subprocCalls' = subprocCalls
       /\ (reqPc = "s_check" /\ reqPc' # reqPc
           /\ (~Exists(fs, loc.model_path) \/ ~Exists(fs, loc.config_path))) =>
            /\ reqPc' = "idle"
            /\ resp'.kind = "synth"
            /\ resp'.error = "NotReady"
            /\ subprocCalls' = subprocCalls
       /\ (reqPc' = "s_check" /\ reqPc' # reqPc) => reqPc = "s_resolve"
       /\ (reqPc' = "s_piper_run" /\ reqPc' # reqPc) =>
            /\ reqPc = "s_check"
            /\ Exists(fs, loc.model_path) /\ Exists(fs, loc.config_path)]_vars

\* the typed failures of the error taxonomy
TypedErrors ==
    {"ValidationError", "NotFound", "NotReady", "InvalidVoice", "Timeout",
     "EngineError", "InternalError"}

\* C13: with both artifacts present every run of the neural engine ends in
\* one typed outcome: success answers 200 with the 44-byte header followed
\* by the engine's PCM output unchanged, a timeout answers Timeout, a
\* non-zero exit answers EngineError carrying the captured error text, and
\* anything else (no executable included) answers InternalError.
C13_NeuralOutcomes ==
    (resp.kind = "synth" /\ resp.engine = "piper" /\ resp.outcome # None) =>
      /\ resp.outcome = "ok" =>
           /\ resp.status = 200 /\ resp.error = None
           /\ Len(resp.body) = 44 + Len(resp.produced)
           /\ SubSeq(resp.body, 45, Len(resp.body)) = resp.produced
           /\ SubSeq(resp.body, 1, 4) = <<82, 73, 70, 70>>
           /\ SubSeq(resp.body, 9, 12) = <<87, 65, 86, 69>>
           /\ resp.body[41] = Len(resp.produced)
      /\ resp.outcome = "timeout" =>
           resp.status = 504 /\ resp.error = "Timeout"
      /\ resp.outcome = "exit_nonzero" =>
           /\ resp.status = 500 /\ resp.error = "EngineError"
           /\ resp.stderr \in OtherTexts
      /\ resp.outcome = "no_executable" =>
           resp.status = 500 /\ resp.error = "InternalError"
      /\ resp.outcome \in {"ok", "timeout", "exit_nonzero", "no_executable"}
      /\ (resp.error = None) <=> (resp.outcome = "ok")
      /\ resp.error # None => resp.error \in TypedErrors /\ resp.body = <<>>

C13_Witness ==
    /\ resp.kind = "synth" /\ resp.engine = "piper"
    /\ resp.outcome = "ok"
    /\ resp.produced = <<255>>
    /\ Len(resp.body) = 45

\* C14: every classic-engine request ends in exactly one of: 200 with the
\* bytes of the file the engine wrote, unchanged; Timeout; InvalidVoice
\* naming the requested language code ("en" when unset) when the error text
\* of a non-zero exit has the "voice does not exist" signature; EngineError
\* carrying the error text on any other non-zero exit; and never an untyped
\* failure, whatever the engine's outcome (a missing executable included).
C14_ClassicOutcomes ==
    (resp.kind = "synth" /\ resp.engine = "espeak") =>
      /\ resp.outcome = "ok" =>
           /\ resp.status = 200 /\ resp.error = None
           /\ resp.body = resp.produced
      /\ resp.outcome = "timeout" =>
           resp.status = 504 /\ resp.error = "Timeout"
      /\ resp.outcome = "exit_no_voice" =>
           /\ resp.status = 400 /\ resp.error = "InvalidVoice"
           /\ resp.detail = (IF req.language = None THEN "en" ELSE req.language)
      /\ resp.outcome = "exit_nonzero" =>
           /\ resp.status = 500 /\ resp.error = "EngineError"
           /\ resp.stderr \in OtherTexts
      /\ (resp.error = None) <=> (resp.outcome = "ok")
      /\ resp.error # None => resp.error \in TypedErrors

\* C15: health reports "healthy" exactly when an engine is ready, and
\* "degraded" otherwise; the neural engine is ready when its binary and both
\* artifacts of the configured default voice are present, the classic engine
\* when its binary is. This holds for every combination of the two binaries
\* and the artifacts, also when the default artifacts are missing while
\* another discovered voice is ready.
C15_HealthyIffAnEngineReady ==
    resp.kind = "health" =>
      /\ resp.status \in {"healthy", "degraded"}
      /\ (resp.status = "healthy") <=>
           \/ /\ resp.piper_available
              /\ resp.model_exists
              /\ resp.config_exists
           \/ resp.espeak_available
      /\ resp.model_loaded <=>
           (resp.piper_available /\ resp.model_exists /\ resp.config_exists)
      /\ resp.espeak_ready <=> resp.espeak_available

C15_Witness ==
    /\ resp.kind = "health"
    /\ resp.piper_available
    /\ ~resp.model_exists
    /\ ~resp.espeak_available
    /\ resp.piper_ready >= 1
    /\ resp.status = "degraded"

\* C16..C20 are about the functions of PureSpec.

\* the model files of the call's tree with and without their configuration
MatchedPairs == {m \in ModelFiles \cap req.tree : ConfigPathOf(m) \in req.tree}

Singletons == {m \in ModelFiles \cap req.tree : ConfigPathOf(m) \notin req.tree}

\* a listing of the call's tree has one descriptor per model file, with
\* pairwise distinct ids, ready exactly for the matched pairs, and a second
\* listing of the unchanged tree equals the first
ListsTheTree ==
    LET v == resp.voices IN
    /\ Len(v) = Cardinality(MatchedPairs) + Cardinality(Singletons)
    /\ {v[i].model_path : i \in 1..Len(v)} = MatchedPairs \cup Singletons
    /\ \A i, j \in 1..Len(v) : i # j => v[i].id # v[j].id
    /\ \A i \in 1..Len(v) :
         /\ v[i].ready <=> (v[i].model_path \in MatchedPairs)
         /\ ~v[i].ready <=> (v[i].model_path \in Singletons)
    /\ resp.calls = 2 => v = resp.previous

\* C18 as stated: the listing of a tree with N matched pairs and M model
\* files without a configuration has N+M descriptors with distinct ids,
\* ready for exactly the N pairs, is the same when repeated, and is ordered
\* lexicographically by the relative path (the path string).
C18_OrderedByPathString ==
    resp.kind = "discover" =>
      /\ ListsTheTree
      /\ \A i, j \in 1..Len(resp.voices) :
           i < j => StrLess(PathStr(resp.voices[i].model_path),
                            PathStr(resp.voices[j].model_path))

\* C18 amended: as above, but the order is that of the paths compared
\* component by component, each component as a string, so a file in a
\* directory "a" comes before the files "a-b.onnx" and "a.onnx" next to that
\* directory.
C18_OrderedByPathComponents ==
    resp.kind = "discover" =>
      /\ ListsTheTree
      /\ \A i, j \in 1..Len(resp.voices) :
           i < j => PathLess(resp.voices[i].model_path,
                             resp.voices[j].model_path)

C18_Witness ==
    /\ resp.kind = "discover"
    /\ resp.calls = 2
    /\ Cardinality(MatchedPairs) = 2 /\ Cardinality(Singletons) = 1
    /\ Len(resp.voices) = 3
    /\ resp.voices[1].model_path = <<NameA, NameB \o OnnxSuffix>>
    /\ resp.voices[3].model_path = <<NameA \o OnnxSuffix>>

\* four bytes read back as a little-endian size
FromBytes4(b) == [hi |-> b[3] + 256 * b[4], lo |-> b[1] + 256 * b[2]]

\* the header built for the call's data size is 44 bytes, declares
\* data size + 36 in bytes 4-7 and the data size in bytes 40-43
HeaderDeclares(header, data_size) ==
    /\ header.ok
    /\ Len(header.bytes) = 44
    /\ FromBytes4(SubSeq(header.bytes, 5, 8)) = BigAdd(data_size, 36)
    /\ FromBytes4(SubSeq(header.bytes, 41, 44)) = data_size

\* header + payload: stripping 44 bytes gives the payload back, and the
\* declared sizes are those of what follows
ContainerRoundTrips ==
    /\ resp.ok
    /\ SubSeq(resp.wav_data, 45, Len(resp.wav_data)) = req.audio_data
    /\ FromBytes4(SubSeq(resp.wav_data, 41, 44)) = Big(Len(resp.wav_data) - 44)
    /\ FromBytes4(SubSeq(resp.wav_data, 5, 8)) = Big(Len(resp.wav_data) - 8)

\* C16 as stated: for a payload of any length L the header is 44 bytes,
\* bytes 4-7 decode to L+36 and bytes 40-43 to L, and stripping the header
\* from header+payload recovers the payload.
C16_HeaderForAnyLength ==
    /\ resp.kind = "wav_header" => HeaderDeclares(resp.header, req.data_size)
    /\ resp.kind = "wav" => ContainerRoundTrips

\* L + 36 fits the 4-byte field: L <= 2^32 - 37
FitsHeader(data_size) == BigAdd(data_size, 36).hi < 65536

\* C16 amended: the above holds for every length L <= 2^32 - 37; for a
\* longer payload no header is built (the size does not fit the 4-byte
\* field and the construction raises).
C16_HeaderUpToFieldWidth ==
    /\ resp.kind = "wav_header" =>
         IF FitsHeader(req.data_size)
           THEN HeaderDeclares(resp.header, req.data_size)
           ELSE ~resp.header.ok
    /\ resp.kind = "wav" => ContainerRoundTrips

C16_Witness ==
    /\ resp.kind = "wav_header"
    /\ req.data_size = [hi |-> 65535, lo |-> 65499]
    /\ resp.header.ok
    /\ SubSeq(resp.header.bytes, 5, 8) = <<255, 255, 255, 255>>

\* C17: resolving None gives the configured default paths whatever the
\* catalog holds; resolving an id of the catalog gives that entry's paths;
\* resolving any other id fails with NotFound naming the id; ids match by
\* equality only.
C17_ResolveExact ==
    resp.kind = "resolve" =>
      LET r == resp.result
          hits == {i \in 1..Len(req.voices) : req.voices[i].id = req.voice_id}
      IN /\ req.voice_id = None =>
              r.ok /\ r.model_path = "model" /\ r.config_path = "config"
         /\ (req.voice_id # None /\ hits # {}) =>
              /\ r.ok
              /\ \E i \in hits : /\ r.model_path = req.voices[i].model_path
                                 /\ r.config_path = req.voices[i].config_path
         /\ (req.voice_id # None /\ hits = {}) =>
              ~r.ok /\ r.error = "NotFound" /\ r.detail = req.voice_id

Clamp(x, low, high) == IF x < low THEN low ELSE IF x > high THEN high ELSE x

\* C19 as stated: the recommended ram_mb is within [300, 600]; it is
\* clamp(R * 0.5, 300, 600) for R > 0 and the fallback 600 for R = 0.
C19_HalfOfRamOrFallback ==
    resp.kind = "recommend" =>
      /\ resp.result.ram_mb \in 300..600
      /\ req.hw.ram_mb > 0 =>
           2 * resp.result.ram_mb = Clamp(req.hw.ram_mb, 600, 1200)
      /\ req.hw.ram_mb = 0 => resp.result.ram_mb = 600

\* C19 amended: for every R >= 0, R = 0 included, the recommended ram_mb is
\* clamp(floor(R / 2), 300, 600), an integer within [300, 600].
C19_FloorOfHalfRam ==
    resp.kind = "recommend" =>
      /\ resp.result.ram_mb \in 300..600
      /\ resp.result.ram_mb = Clamp(req.hw.ram_mb \div 2, 300, 600)

C19_Witness ==
    /\ resp.kind = "recommend"
    /\ req.hw.ram_mb = 1199
    /\ resp.result.ram_mb = 599

\* C20 as stated: cpu_cores is 1 for C <= 2 and 2 for C >= 3.
C20_TwoCoresFromThree ==
    resp.kind = "recommend" =>
      resp.result.cpu_cores = (IF req.hw.cpu_cores <= 2 THEN 1 ELSE 2)

\* C20 amended: cpu_cores is 1 for C <= 3 and 2 for C >= 4.
C20_TwoCoresFromFour ==
    resp.kind = "recommend" =>
      resp.result.cpu_cores = (IF req.hw.cpu_cores <= 3 THEN 1 ELSE 2)

C20_Witness ==
    /\ resp.kind = "recommend"
    /\ req.hw.cpu_cores = 3
    /\ resp.result.cpu_cores = 1

\* C21 as stated: the recommended accelerator is "cuda" when cuda is
\* detected and "none" for every other detected kind; rocm and openvino are
\* never recommended.
C21_OnlyCudaAdvertised ==
    resp.kind = "recommend" =>
      /\ resp.result.accelerator =
           (IF req.hw.gpu_type = "cuda" THEN "cuda" ELSE "none")
      /\ resp.result.accelerator \notin {"rocm", "openvino"}

\* C21 amended: the recommended accelerator is the detected kind, unchanged:
\* cuda, rocm, openvino or none.
C21_AcceleratorPassedThrough ==
    resp.kind = "recommend" =>
      /\ resp.result.accelerator = req.hw.gpu_type
      /\ resp.result.accelerator \in {"cuda", "rocm", "openvino", "none"}

C21_Witness ==
    /\ resp.kind = "recommend"
    /\ req.hw.gpu_type = "rocm"
    /\ resp.result.accelerator = "rocm"

\* C22: a health response that reports the default download as done also
\* reports both default artifacts as existing, and the neural engine as
\* loaded when its binary is present, whatever the acquirer thread does
\* while the response is built.
C22_DoneViewHasArtifacts ==
    (resp.kind = "health" /\ resp.default_model_download.state = "done") =>
      /\ resp.model_exists
      /\ resp.config_exists
      /\ resp.piper_available => resp.model_loaded

\* the acquisition started with neither default artifact on disk
StartedEmpty == ~Exists(fs0, "model") /\ ~Exists(fs0, "config")

\* the artifact is at its final path and is not being written there
Installed(p) == Exists(fs, p) /\ ~(acqPc = "dl_copy" /\ acq.cur = p)

\* C23: in an acquisition that starts with neither default artifact on disk
\* the model is installed before the configuration appears and the state is
\* done only with both installed; a neural request for the default voice
\* made during the acquisition is answered NotReady unless both artifacts
\* are installed, and only then is the engine started.
C23_ModelThenConfigThenDone ==
    /\ [](StartedEmpty =>
            /\ Exists(fs, "config") => Installed("model")
            /\ status.state = "done" =>
                 Installed("model") /\ Installed("config"))
    /\ [][(/\ StartedEmpty
           /\ reqPc = "s_check" /\ reqPc' # reqPc
           /\ loc.model_path = "model" /\ loc.config_path = "config") =>
            IF Installed("model") /\ Installed("config")
              THEN reqPc' = "s_piper_run"
              ELSE /\ reqPc' = "idle"
                   /\ resp'.error = "NotReady"
                   /\ subprocCalls' = subprocCalls]_vars

\* C24: when the acquirer has ended in state failed, the final paths of the
\* default model and configuration artifacts hold what they held when it
\* started, also when the model was downloaded and the configuration
\* download then failed.
C24_FailedInstallsNothing ==
    (acqPc = "ended" /\ status.state = "failed") =>
      /\ fs["model"] = fs0["model"]
      /\ fs["config"] = fs0["config"]
====
